---- MODULE Spec2Model ----
(***************************************************************************)
(* SquadReader (allennlp/data/dataset_readers/reading_comprehension/       *)
(* squad.py): the generator _read and the per-record text_to_instance.     *)
(*                                                                         *)
(* Texts are sequences of one-character strings.  An optional value is a   *)
(* sequence of length 0 (Python's None) or 1.                              *)
(***************************************************************************)
EXTENDS Integers, Sequences, FiniteSets, TLC

VARIABLES
    file,                 \* the lines of the file at file_path (never written by the reader)
    openable,             \* whether open(file_path) succeeds
    reader,               \* the SquadReader's fields set by __init__
    utilSkips,            \* what the alignment utility does with an answer it cannot align
    pc,                   \* the position of the generator _read
    handles,              \* the file objects that are open, named by the open() that made them
    data,                 \* data[column][:100], kept row-wise
    cursor,               \* how many rows the for loop has taken from zip(...)
    tokenized_paragraph,  \* local of _read, line 89
    instance,             \* local of _read, line 91
    utilArgs,             \* the token sequences of the last call of the alignment utility
    passageTokCalls,      \* tokenizer calls on the current row's passage
    yielded,              \* what the caller has received in this traversal
    error,                \* the exception that ended this traversal, if any
    pulls,                \* how many times the caller has asked for the next example
    trav,                 \* the number of this traversal
    previous              \* the outcome of the last earlier traversal that ran to its end, if any

vars == <<file, openable, reader, utilSkips, pc, handles, data, cursor,
          tokenized_paragraph, instance, utilArgs, passageTokCalls, yielded,
          error, pulls, trav, previous>>

(***************************************************************************)
(* Bounds of the model.                                                    *)
(***************************************************************************)
MaxRecords == 3       \* short files have up to this many lines
MaxOver == 1          \* long files have RecordLimit + (0..MaxOver) lines
MaxLimit == 2         \* the configured length limits are 1..MaxLimit
MaxTraversals == 2    \* traversals of the same file by the same reader
MaxRepeatRecords == 2 \* the files read more than once have up to this many lines

\* squad.py line 84: data[column] = [...][:100]
RecordLimit == 100

None == <<>>
Some(x) == <<x>>
IsNone(o) == o = <<>>
Val(o) == o[1]

Min(a, b) == IF a <= b THEN a ELSE b
Max(a, b) == IF a >= b THEN a ELSE b

Columns == <<"answer", "passage", "question", "title">>


(***************************************************************************)
(* Text operations.                                                        *)
(***************************************************************************)
IsSpace(c) == c \in {" ", "\n"}

\* str.strip(): drops leading and trailing whitespace
Strip(text) ==
    LET keep == {i \in 1..Len(text) : ~IsSpace(text[i])}
    IN IF keep = {} THEN <<>>
       ELSE SubSeq(text, CHOOSE i \in keep : \A j \in keep : i <= j,
                         CHOOSE i \in keep : \A j \in keep : i >= j)

IsNotNewline(c) == c # "\n"

\* str.replace("\n", "")
RemoveNewlines(text) == SelectSeq(text, IsNotNewline)

\* question.strip().replace("\n", "")
QuestionText(question) == RemoveNewlines(Strip(question))

\* Tokenizer.tokenize on a string: whitespace-separated tokens, each with its
\* text and the offset (from 0) of its first character
Tokenize(text) ==
    LET starts == {i \in 1..Len(text) :
                      ~IsSpace(text[i]) /\ (i = 1 \/ IsSpace(text[i - 1]))}
        nth(n) == CHOOSE i \in starts : Cardinality({j \in starts : j < i}) = n - 1
        endOf(i) == CHOOSE j \in i..Len(text) :
                      /\ \A k \in i..j : ~IsSpace(text[k])
                      /\ (j = Len(text) \/ IsSpace(text[j + 1]))
    IN [n \in 1..Cardinality(starts) |->
          [text |-> SubSeq(text, nth(n), endOf(nth(n))), idx |-> nth(n) - 1]]

\* Tokenizer.tokenize raises on a value that is not a string
TokenizerRaises(value) == value.t # "str"

\* tokens[:limit] for an int limit
Slice(tokens, limit) ==
    IF limit >= 0 THEN SubSeq(tokens, 1, Min(limit, Len(tokens)))
    ELSE SubSeq(tokens, 1, Max(0, Len(tokens) + limit))

\* tokens[:limit + 1]
TruncateKeepsOneMore(tokens, limit) ==
    IF ~IsNone(limit) THEN Slice(tokens, Val(limit) + 1) ELSE tokens

\* lines 135-138: if limit is not None: tokens = tokens[:limit]
Truncate(tokens, limit) ==
    IF ~IsNone(limit) THEN Slice(tokens, Val(limit)) ELSE tokens

(***************************************************************************)
(* The alignment utility, util.make_reading_comprehension_instance, called *)
(* with (question_tokens, passage_tokens, token_indexers, answer,          *)
(* passage_text, additional_metadata).  It receives no field of the reader *)
(* but the token indexers.                                                 *)
(***************************************************************************)
Aligned(passage_tokens, answer) ==
    {i \in 1..Len(passage_tokens) : passage_tokens[i].text = answer.v}

make_reading_comprehension_instance(question_tokens, passage_tokens, answer, passage_text, skips) ==
    LET hits == Aligned(passage_tokens, answer)
        first == CHOOSE i \in hits : \A j \in hits : i <= j
        span == IF hits # {} THEN first - 1 ELSE Len(passage_tokens) - 1
    IN IF hits = {} /\ skips THEN None
       ELSE Some([question |-> question_tokens,
                  passage |-> passage_tokens,
                  span_start |-> span,
                  span_end |-> span,
                  original_passage |-> passage_text.v,
                  answer_texts |-> <<answer.v>>])

(***************************************************************************)
(* The files read.                                                         *)
(***************************************************************************)
JStr(chars) == [t |-> "str", v |-> chars]
JNum == [t |-> "num", v |-> <<>>]

PassageABC == JStr(<<"a", " ", "b", " ", "c">>)

\* the answer is the first token of the passage
LineOk == [valid |-> TRUE,
           obj |-> [answer |-> JStr(<<"a">>), passage |-> PassageABC,
                    question |-> JStr(<<"w", " ", "x", "\n">>),
                    title |-> JStr(<<"t">>)]]
\* the answer is the last token of the passage
LineFar == [valid |-> TRUE,
            obj |-> [answer |-> JStr(<<"c">>), passage |-> PassageABC,
                     question |-> JStr(<<" ", "w", "\n", "x", " ", "y">>),
                     title |-> JStr(<<"t">>)]]
\* the passage has no token
LineEmpty == [valid |-> TRUE,
              obj |-> [answer |-> JStr(<<"a">>), passage |-> JStr(<<>>),
                       question |-> JStr(<<"w">>), title |-> JStr(<<"t">>)]]
\* not JSON
LineBadJson == [valid |-> FALSE, obj |-> [text |-> JStr(<<"{">>)]]
\* JSON without the field title
LineNoTitle == [valid |-> TRUE,
                obj |-> [answer |-> JStr(<<"a">>), passage |-> PassageABC,
                         question |-> JStr(<<"w">>)]]
\* the passage is a number, on which the tokenizer raises
LineNumPassage == [valid |-> TRUE,
                   obj |-> [answer |-> JStr(<<"a">>), passage |-> JNum,
                            question |-> JStr(<<"w">>), title |-> JStr(<<"t">>)]]

Lines == {LineOk, LineFar, LineEmpty, LineBadJson, LineNoTitle, LineNumPassage}

ShortFiles == UNION {[1..n -> Lines] : n \in 0..MaxRecords}

RepeatFiles == UNION {[1..n -> Lines] : n \in 0..MaxRepeatRecords}

\* RecordLimit or more lines, all LineOk but the last one
LongFiles ==
    {[i \in 1..n |-> IF i = n THEN last ELSE LineOk] :
        n \in RecordLimit..(RecordLimit + MaxOver), last \in Lines}

Limits == {None} \cup {Some(n) : n \in 1..MaxLimit}

Readers == [passage_length_limit : Limits, question_length_limit : Limits,
            skip_invalid_examples : BOOLEAN]

DefaultLimitReaders == {r \in Readers : /\ IsNone(r.passage_length_limit)
                                        /\ IsNone(r.question_length_limit)}

(***************************************************************************)
(* _read, lines 73-98.                                                     *)
(***************************************************************************)
\* a json.loads that never raises
JsonLoadsNeverRaises(lines) == FALSE

\* line 82: json.loads raises on a line that is not JSON
JsonLoadsRaises(lines) == \E i \in 1..Len(lines) : ~lines[i].valid

\* line 82: data['raw']
Raw(lines) == [i \in 1..Len(lines) |-> lines[i].obj]

\* line 84: line[column] raises on a row without the column, for any row of the file
ColumnRaises(raw) ==
    \E i \in 1..Len(raw) : \E c \in 1..Len(Columns) : Columns[c] \notin DOMAIN raw[i]

\* lines 83-84: data[column] = [line[column] for line in data['raw']][:100]
LoadColumns(raw) ==
    Slice([i \in 1..Len(raw) |->
              [answer |-> raw[i].answer, passage |-> raw[i].passage,
               question |-> raw[i].question, title |-> raw[i].title]],
          RecordLimit)

\* a generator that goes on to the next row without waiting for the caller
AfterYieldGoesOn == "loop"

\* line 98: yield suspends the generator until the caller asks again
AfterYield == "suspended"

\* text_to_instance, lines 123-149
text_to_instance(question_text, passage_text, answer, passage_tokens, rd, skips) ==
    LET retokenize == passage_tokens = <<>>        \* if not passage_tokens
        ptokens == IF retokenize THEN Tokenize(passage_text.v) ELSE passage_tokens
        qtokens == Tokenize(question_text)
        p == Truncate(ptokens, rd.passage_length_limit)
        q == Truncate(qtokens, rd.question_length_limit)
    IN [instance |-> make_reading_comprehension_instance(q, p, answer, passage_text, skips),
        question_tokens |-> q,
        passage_tokens |-> p,
        tokenizer_calls |-> IF retokenize THEN 1 ELSE 0]

NoArgs == [question_tokens |-> <<>>, passage_tokens |-> <<>>]

Start(f, o, r, u) ==
    /\ file = f
    /\ openable = o
    /\ reader = r
    /\ utilSkips = u
    /\ pc = "new"
    /\ handles = {}
    /\ data = <<>>
    /\ cursor = 0
    /\ tokenized_paragraph = <<>>
    /\ instance = None
    /\ utilArgs = NoArgs
    /\ passageTokCalls = 0
    /\ yielded = <<>>
    /\ error = None
    /\ pulls = 0
    /\ trav = 1
    /\ previous = None

\* short files, and a file that cannot be opened
Init ==
    \/ \E f \in ShortFiles, r \in Readers, u \in BOOLEAN : Start(f, TRUE, r, u)
    \/ \E r \in Readers, u \in BOOLEAN : Start(<<>>, FALSE, r, u)

\* the files that are read more than once
InitRepeat ==
    \/ \E f \in RepeatFiles, r \in Readers, u \in BOOLEAN : Start(f, TRUE, r, u)
    \/ \E r \in Readers, u \in BOOLEAN : Start(<<>>, FALSE, r, u)

\* files of RecordLimit lines and more, with a utility that always builds an example
InitLong ==
    \E f \in LongFiles, r \in DefaultLimitReaders : Start(f, TRUE, r, FALSE)

config == <<file, openable, reader, utilSkips>>
locals == <<data, cursor, tokenized_paragraph, instance, utilArgs, passageTokCalls>>

\* the caller asks for the next example
Pull ==
    /\ pc \in {"new", "suspended"}
    /\ pulls' = pulls + 1
    /\ pc' = IF pc = "new" THEN "open" ELSE "loop"
    /\ UNCHANGED <<config, locals, handles, yielded, error, trav, previous>>

\* lines 75-78: with open(file_path) as dataset_file
OpenFile ==
    /\ pc = "open"
    /\ IF openable
       THEN /\ handles' = handles \cup {"dataset_file"}
            /\ pc' = "load"
            /\ error' = error
       ELSE /\ handles' = handles
            /\ pc' = "failed"
            /\ error' = Some("IOError")
    /\ UNCHANGED <<config, locals, yielded, pulls, trav, previous>>

\* a load that drops the lines that are not JSON or lack a field
LoadDataSkipsBadLines ==
    /\ pc = "load"
    /\ handles' = (handles \cup {"lines"}) \ {"dataset_file"}
    /\ LET good(line) == line.valid /\ ~ColumnRaises(<<line.obj>>)
       IN data' = LoadColumns(Raw(SelectSeq(file, good)))
    /\ pc' = "loop"
    /\ UNCHANGED <<config, cursor, tokenized_paragraph, instance, utilArgs,
                   passageTokCalls, yielded, error, pulls, trav, previous>>

\* lines 82-86: the file is opened a second time and read whole; leaving the
\* with block, normally or by an exception, closes dataset_file
LoadData ==
    /\ pc = "load"
    /\ handles' = (handles \cup {"lines"}) \ {"dataset_file"}
    /\ IF JsonLoadsRaises(file)
       THEN /\ pc' = "failed"
            /\ error' = Some("JSONDecodeError")
            /\ data' = data
       ELSE IF ColumnRaises(Raw(file))
       THEN /\ pc' = "failed"
            /\ error' = Some("KeyError")
            /\ data' = data
       ELSE /\ pc' = "loop"
            /\ error' = error
            /\ data' = LoadColumns(Raw(file))
    /\ UNCHANGED <<config, cursor, tokenized_paragraph, instance, utilArgs,
                   passageTokCalls, yielded, pulls, trav, previous>>

\* lines 88-89: the next row of zip(...), and its passage tokenized
NextRecord ==
    /\ pc = "loop"
    /\ IF cursor = Len(data)
       THEN /\ pc' = "done"
            /\ UNCHANGED <<cursor, tokenized_paragraph, passageTokCalls, error>>
       ELSE /\ cursor' = cursor + 1
            /\ passageTokCalls' = 1
            /\ IF TokenizerRaises(data[cursor + 1].passage)
               THEN /\ pc' = "failed"
                    /\ error' = Some("TokenizerError")
                    /\ tokenized_paragraph' = tokenized_paragraph
               ELSE /\ pc' = "call"
                    /\ error' = error
                    /\ tokenized_paragraph' = Tokenize(data[cursor + 1].passage.v)
    /\ UNCHANGED <<config, data, instance, utilArgs, handles, yielded, pulls,
                   trav, previous>>

\* a text_to_instance that stores the length of the passage it used as the limit
TextToInstanceWritesLimit ==
    /\ pc = "call"
    /\ LET row == data[cursor]
           r == text_to_instance(QuestionText(row.question.v), row.passage,
                                 row.answer, tokenized_paragraph, reader, utilSkips)
       IN /\ instance' = r.instance
          /\ utilArgs' = [question_tokens |-> r.question_tokens,
                          passage_tokens |-> r.passage_tokens]
          /\ passageTokCalls' = passageTokCalls + r.tokenizer_calls
          /\ reader' = [reader EXCEPT !.passage_length_limit = Some(Len(r.passage_tokens))]
    /\ pc' = "emit"
    /\ UNCHANGED <<file, openable, utilSkips, data, cursor, tokenized_paragraph, handles,
                   yielded, error, pulls, trav, previous>>

\* lines 90-96
TextToInstance ==
    /\ pc = "call"
    /\ LET row == data[cursor]
           r == text_to_instance(QuestionText(row.question.v), row.passage,
                                 row.answer, tokenized_paragraph, reader, utilSkips)
       IN /\ instance' = r.instance
          /\ utilArgs' = [question_tokens |-> r.question_tokens,
                          passage_tokens |-> r.passage_tokens]
          /\ passageTokCalls' = passageTokCalls + r.tokenizer_calls
    /\ pc' = "emit"
    /\ UNCHANGED <<config, data, cursor, tokenized_paragraph, handles, yielded,
                   error, pulls, trav, previous>>

\* lines 97-98: if instance is not None: yield instance
Emit ==
    /\ pc = "emit"
    /\ IF ~IsNone(instance)
       THEN /\ yielded' = Append(yielded, [record |-> cursor, instance |-> Val(instance)])
            /\ pc' = AfterYield
       ELSE /\ yielded' = yielded
            /\ pc' = "loop"
    /\ UNCHANGED <<config, locals, handles, error, pulls, trav, previous>>

\* the caller stops consuming
Abandon ==
    /\ pc = "suspended"
    /\ pc' = "abandoned"
    /\ UNCHANGED <<config, locals, handles, yielded, error, pulls, trav, previous>>

\* line 82: nothing closes open(file_path) but the garbage collector, which
\* may or may not run
CollectGarbage ==
    /\ "lines" \in handles
    /\ handles' = handles \ {"lines"}
    /\ UNCHANGED <<config, locals, pc, yielded, error, pulls, trav, previous>>

Ended == pc \in {"done", "failed"}

\* read is called again on the same reader and the same file
Restart ==
    /\ Ended \/ pc = "abandoned"
    /\ trav < MaxTraversals
    /\ previous' = IF Ended THEN Some([pc |-> pc, yielded |-> yielded, error |-> error])
                   ELSE previous
    /\ trav' = trav + 1
    /\ pc' = "new"
    /\ data' = <<>>
    /\ cursor' = 0
    /\ tokenized_paragraph' = <<>>
    /\ instance' = None
    /\ utilArgs' = NoArgs
    /\ passageTokCalls' = 0
    /\ yielded' = <<>>
    /\ error' = None
    /\ pulls' = 0
    /\ UNCHANGED <<config, handles>>

Next ==
    \/ Pull
    \/ OpenFile
    \/ LoadData
    \/ NextRecord
    \/ TextToInstance
    \/ Emit
    \/ Abandon
    \/ CollectGarbage

NextRepeat ==
    \/ Pull
    \/ OpenFile
    \/ LoadData
    \/ NextRecord
    \/ TextToInstance
    \/ Emit
    \/ Abandon
    \/ CollectGarbage
    \/ Restart

\* one traversal of a short file
Spec == Init /\ [][Next]_vars

\* up to MaxTraversals traversals of the same file
SpecRepeat == InitRepeat /\ [][NextRepeat]_vars

\* one traversal of a file of RecordLimit lines or more
SpecLong == InitLong /\ [][Next]_vars

(***************************************************************************)
(* What the file holds, read off the lines themselves.                     *)
(***************************************************************************)
IsPrefix(s, t) == Len(s) <= Len(t) /\ s = SubSeq(t, 1, Len(s))

InvalidJson(line) == ~line.valid
LacksField(line) == line.valid /\ \E c \in 1..Len(Columns) : Columns[c] \notin DOMAIN line.obj
BadLine(line) == InvalidJson(line) \/ LacksField(line)
FailsTokenization(line) == ~BadLine(line) /\ line.obj.passage.t # "str"
FailsAlone(line) == BadLine(line) \/ FailsTokenization(line)

\* what read makes of one line taken alone: the result of text_to_instance on
\* its question, passage and answer, with the passage's tokens supplied
ExampleOf(line) ==
    text_to_instance(QuestionText(line.obj.question.v), line.obj.passage, line.obj.answer,
                     Tokenize(line.obj.passage.v), reader, utilSkips).instance

ProducesExample(line) == ~FailsAlone(line) /\ ~IsNone(ExampleOf(line))

\* the lines 1..n of the file that produce an example, in file order
ExamplesUpTo(n) ==
    LET producing == {i \in 1..n : ProducesExample(file[i])}
        nth(k) == CHOOSE i \in producing : Cardinality({j \in producing : j < i}) = k - 1
    IN [k \in 1..Cardinality(producing) |->
          [record |-> nth(k), instance |-> Val(ExampleOf(file[nth(k)]))]]

\* the answer of the row in hand has no token of the passage handed to the utility
Unaligned == Aligned(utilArgs.passage_tokens, data[cursor].answer) = {}

(***************************************************************************)
(* C1.  For a file that opens and parses and whose N records are each      *)
(* turned into an example by text_to_instance, read yields exactly N       *)
(* examples, the i-th built from the i-th record, and is exhausted only    *)
(* after every record of the file has been consumed, for every N.          *)
(***************************************************************************)
C1_ReadYieldsEveryRecord ==
    (pc = "done" /\ \A i \in 1..Len(file) : ProducesExample(file[i]))
        => /\ cursor = Len(file)
           /\ yielded = [i \in 1..Len(file) |->
                            [record |-> i, instance |-> Val(ExampleOf(file[i]))]]

(***************************************************************************)
(* C2.  The passage tokens handed to the alignment utility number at most  *)
(* passage_length_limit when it is configured, the question tokens at most *)
(* question_length_limit when it is configured; each handed-over sequence  *)
(* is a prefix of the untruncated tokenization, and is that tokenization   *)
(* unchanged when its limit is not configured.                             *)
(***************************************************************************)
C2_TruncatedToLimit ==
    pc = "emit" =>
        LET passage == Tokenize(data[cursor].passage.v)
            question == Tokenize(QuestionText(data[cursor].question.v))
            plimit == reader.passage_length_limit
            qlimit == reader.question_length_limit
        IN /\ ~IsNone(plimit) => Len(utilArgs.passage_tokens) <= Val(plimit)
           /\ ~IsNone(qlimit) => Len(utilArgs.question_tokens) <= Val(qlimit)
           /\ IsPrefix(utilArgs.passage_tokens, passage)
           /\ IsPrefix(utilArgs.question_tokens, question)
           /\ IsNone(plimit) => utilArgs.passage_tokens = passage
           /\ IsNone(qlimit) => utilArgs.question_tokens = question

\* both sequences were longer than their limit and have been cut
C2_Witness ==
    /\ pc = "emit"
    /\ ~IsNone(reader.passage_length_limit)
    /\ ~IsNone(reader.question_length_limit)
    /\ Len(Tokenize(data[cursor].passage.v)) > Val(reader.passage_length_limit)
    /\ Len(Tokenize(QuestionText(data[cursor].question.v))) > Val(reader.question_length_limit)
    /\ Len(utilArgs.passage_tokens) = Val(reader.passage_length_limit)
    /\ Len(utilArgs.question_tokens) = Val(reader.question_length_limit)

(***************************************************************************)
(* C3.  With skip_invalid_examples=True a record whose answer cannot be    *)
(* aligned to the (possibly truncated) passage is absent from what read    *)
(* yields, and the configured value of skip_invalid_examples reaches the   *)
(* decision: for such a record text_to_instance returns nothing with the   *)
(* flag set, and its result is not the one it gives with the flag cleared. *)
(***************************************************************************)
C3_SkipDropsUnaligned ==
    reader.skip_invalid_examples =>
        /\ \A k \in 1..Len(yielded) :
              Aligned(yielded[k].instance.passage, data[yielded[k].record].answer) # {}
        /\ (pc = "emit" /\ Unaligned) =>
              LET row == data[cursor]
                  result(flag) ==
                      text_to_instance(QuestionText(row.question.v), row.passage, row.answer,
                                       tokenized_paragraph,
                                       [reader EXCEPT !.skip_invalid_examples = flag],
                                       utilSkips).instance
              IN /\ IsNone(instance)
                 /\ result(TRUE) # result(FALSE)

(***************************************************************************)
(* C4.  With skip_invalid_examples=False text_to_instance never returns    *)
(* nothing: a record whose answer cannot be aligned still produces an      *)
(* example, with the fallback span at the last token of the truncated      *)
(* passage, so read yields one example for every record of the file.       *)
(***************************************************************************)
C4_NoSkipYieldsEveryRecord ==
    ~reader.skip_invalid_examples =>
        /\ pc = "emit" =>
              /\ ~IsNone(instance)
              /\ Unaligned =>
                    /\ Val(instance).span_start = Len(utilArgs.passage_tokens) - 1
                    /\ Val(instance).span_end = Len(utilArgs.passage_tokens) - 1
        /\ pc = "done" => Len(yielded) = Len(file)

FirstTokenizationFailure ==
    LET failing == {i \in 1..Min(Len(file), RecordLimit) : FailsTokenization(file[i])}
    IN IF failing = {} THEN 0 ELSE CHOOSE i \in failing : \A j \in failing : i <= j

C6_FatalErrorBeforeAnyExample ==
    /\ (~IsNone(error) /\ Val(error) \in {"IOError", "JSONDecodeError", "KeyError"})
          => yielded = <<>>
    /\ yielded # <<>> => (openable /\ \A i \in 1..Len(file) : ~BadLine(file[i]))

\* the parse error of a file whose first line is a good record
C6_Witness ==
    /\ pc = "failed"
    /\ error = Some("JSONDecodeError")
    /\ Len(file) >= 2
    /\ ProducesExample(file[1])
    /\ yielded = <<>>

(***************************************************************************)
(* C7.  Reading is repeatable: a traversal of the same unchanged file by   *)
(* the same reader ends as the earlier traversal that ran to its end did,  *)
(* with the same examples in the same order and the same error if any, and *)
(* no step of a traversal changes a field of the reader.                   *)
(***************************************************************************)
C7_Repeatable ==
    /\ [](( Ended /\ ~IsNone(previous))
            => Val(previous) = [pc |-> pc, yielded |-> yielded, error |-> error])
    /\ [][reader' = reader]_vars

\* a second traversal has yielded an example and is exhausted, after a first that was
C7_Witness ==
    /\ trav = 2
    /\ pc = "done"
    /\ yielded # <<>>
    /\ ~IsNone(previous)
    /\ Val(previous).pc = "done"

(***************************************************************************)
(* C8.  text_to_instance called with passage_tokens supplied does not      *)
(* invoke the tokenizer on passage_text, so read invokes the tokenizer on  *)
(* each record's passage exactly once, also when the passage tokenizes to  *)
(* an empty sequence.                                                      *)
(***************************************************************************)
C8_PassageTokenizedOnce ==
    pc = "emit" => passageTokCalls = 1

(***************************************************************************)
(* C9.  Every file handle opened during a traversal is released by the     *)
(* time the traversal completes or fails.                                  *)
(***************************************************************************)
C9_HandlesReleased ==
    Ended => handles = {}

(***************************************************************************)
(* C10.  Examples are produced on demand: the generator works only while a *)
(* request of the caller is unanswered, and once it has yielded and the    *)
(* caller asks no more, no record after the one that produced the last     *)
(* example has been tokenized or passed to text_to_instance.               *)
(***************************************************************************)
C10_OnDemand ==
    /\ Len(yielded) <= pulls
    /\ pc = "new" => (pulls = 0 /\ cursor = 0)
    /\ pc \in {"open", "load", "loop", "call", "emit"} => pulls = Len(yielded) + 1
    /\ pc \in {"suspended", "abandoned"} =>
          /\ pulls = Len(yielded)
          /\ yielded # <<>>
          /\ cursor = yielded[Len(yielded)].record

\* the caller has stopped after an example, with records of the file left
C10_Witness ==
    /\ pc = "abandoned"
    /\ yielded # <<>>
    /\ cursor = yielded[Len(yielded)].record
    /\ cursor < Len(data)

====
